---- MODULE Spec2Model ----
(***************************************************************************)
(* Scatter/gather segment lists, the iov_iter cursor and the copy driver   *)
(* of playground/codebases/core/core.c.                                    *)
(*                                                                         *)
(* Memory model.  A segment list is a sequence of descriptors              *)
(* [iov_base, iov_len]; index k of the C array is element k + 1 of the     *)
(* sequence.  The only store into segment memory in core.c is the loop of  *)
(* process_iovec_segments, which writes every byte j < iov_len of a        *)
(* segment with 'A' + j % 26, so the content of a segment is either as     *)
(* the caller allocated it (a fill byte) or that pattern; ByteOf gives the *)
(* byte at an offset.                                                      *)
(*                                                                         *)
(* Integer widths.  size_t is modelled at SIZE_BITS bits and int at        *)
(* INT_BITS bits (two's complement), scaled down so that every intermediate *)
(* value is a 32-bit integer, while keeping the order                      *)
(* 1000000 < INT_MAX < SIZE_MAX of the build.                              *)
(*                                                                         *)
(* Out-of-bounds reads.  __iov_iter_advance_iov reads iov->iov_len with no *)
(* check against nr_segs.  A read at an index >= nr_segs is undefined      *)
(* behaviour: it yields any of the values OOBVals, or faults; MaxOOB       *)
(* descriptors after the array are mapped, a read beyond them faults.      *)
(*                                                                         *)
(* The growable buffer of playground/codebases/sample/sample.c is modelled *)
(* next to it (BufSpec): the struct starts with indeterminate fields,      *)
(* malloc and realloc may return NULL, and sizes have the width of size_t. *)
(***************************************************************************)
EXTENDS Integers, Sequences, FiniteSets, TLC

\* ---------------------------------------------------------------- bounds
MaxSrcSegs == 3
MaxDstSegs == 2
MaxLen == 1
MaxOOB == 2
MaxCalls == 3
MaxAdv == 3
MaxBufCalls == 3
MaxWideSegs == 2

\* ------------------------------------------------------- program constants
MAX_IOV_LEN == 1000000
SIZE_BITS == 30
INT_BITS == 21

SizeMod == 2 ^ SIZE_BITS
IntMod == 2 ^ INT_BITS

NULL == 0
GROW_START == 1024

\* ---------------------------------------------------------- C arithmetic
\* size_t addition and subtraction wrap modulo 2^SIZE_BITS; the second
\* operand may be a (sign-extended) negative int.
SzAdd(a, b) == ((a % SizeMod) + (b % SizeMod)) % SizeMod
SzSub(a, b) == ((a % SizeMod) - (b % SizeMod)) % SizeMod

\* Conversion of a size_t value to int: the low INT_BITS bits, two's complement.
ToInt(x) ==
    LET r == x % IntMod
    IN  IF r >= IntMod \div 2 THEN r - IntMod ELSE r

Min(a, b) == IF a < b THEN a ELSE b

\* ------------------------------------------------------------ segment lists
Seg(list, k) == list[k + 1]

Count(list) == Len(list)

RECURSIVE SumLens(_, _)
\* true (unwrapped) sum of the lengths of the first k segments
SumLens(list, k) ==
    IF k = 0 THEN 0 ELSE SumLens(list, k - 1) + Seg(list, k - 1).iov_len

TotalLength(list) == SumLens(list, Count(list))

RECURSIVE SizeSum(_, _)
\* the running sum of lines 52-54 and 57-59, in size_t
SizeSum(list, k) ==
    IF k = 0 THEN 0 ELSE SzAdd(SizeSum(list, k - 1), Seg(list, k - 1).iov_len)

\* byte at offset j of a segment whose content descriptor is d
ByteOf(d, j) == IF d.pat THEN 65 + (j % 26) ELSE d.fill

\* segment index holding logical byte p of the list (p < TotalLength(list))
SegOf(list, p) ==
    CHOOSE k \in 0 .. Count(list) - 1 :
        SumLens(list, k) <= p /\ p < SumLens(list, k + 1)

\* logical byte p of the concatenation of the list's segments
StreamByte(list, data, p) ==
    LET k == SegOf(list, p)
    IN  ByteOf(data[k + 1], p - SumLens(list, k))

\* ------------------------------------------------------------------ state
VARIABLES
    src_iov,    \* source list; also the list the iterator walks
    dst_iov,    \* destination list
    src_data,   \* content of each source segment
    dst_data,   \* content of each destination segment
    pc,         \* position of the caller (perform_io_operation / safe_copy_data, or the API driver)
    i,          \* loop index of safe_copy_data, line 68
    result,     \* return value of perform_io_operation (1: not returned yet)
    iter,       \* struct iov_iter; iov is the index of the current descriptor
    iter_live,  \* history: initialize_iov_iter has run
    adv,        \* frame of __iov_iter_advance_iov: pc, bytes, base, local iov
    oob,        \* history: a descriptor at an index >= nr_segs has been read
    calls,      \* history: number of calls of __iov_iter_advance_iov
    hist,       \* history: argument, logical position and remaining bytes at the last call
    z_iov,      \* src_iov without its zero-length segments
    z_iter,     \* a second iterator, over z_iov
    z_adv,      \* its frame of __iov_iter_advance_iov
    z_oob,      \* history: it has read a descriptor at an index >= its nr_segs
    inrange,    \* history: no call of __iov_iter_advance_iov asked for more than remained
    buf,        \* struct buffer of sample.c; data is NULL or the live block
    alloc,      \* size of the block buf.data points to (-1: no block)
    bpc,        \* position inside append_to_buffer ("idle": between calls)
    bframe,     \* frame of append_to_buffer: len, new_capacity, the buffer at entry
    bhist,      \* history: the last completed call on the buffer
    bcalls,     \* history: number of calls on the buffer
    appended,   \* history: bytes of the successful appends since the last initialize/cleanup
    stray       \* history: a memcpy has written outside the block of buf.data

vars == <<src_iov, dst_iov, src_data, dst_data, pc, i, result, iter, iter_live,
          adv, oob, calls, hist, z_iov, z_iter, z_adv, z_oob, inrange,
          buf, alloc, bpc, bframe, bhist, bcalls, appended, stray>>

memvars == <<src_iov, dst_iov, src_data, dst_data>>

zvars == <<z_iov, z_iter, z_adv, z_oob>>

bufvars == <<buf, alloc, bpc, bframe, bhist, bcalls, appended, stray>>

\* ---------------------------------------------------------------- inputs
Lens == 0 .. MaxLen
BigLens == {MAX_IOV_LEN, MAX_IOV_LEN + 1}
FillBytes == {0, 65}
OOBVals == {0, 1, SizeMod - 1}

\* a caller's descriptor: a zero-length allocation may have a NULL base
Descriptor(len) == [iov_base |-> IF len = 0 THEN NULL ELSE 1, iov_len |-> len]

IovLists(lens, maxsegs) ==
    UNION { { [k \in 1 .. n |-> Descriptor(f[k])] : f \in [1 .. n -> lens] }
            : n \in 0 .. maxsegs }

\* the lists of main, lines 150-165
MainList == <<Descriptor(10), Descriptor(0), Descriptor(15)>>

\* the calls of perform_io_operation: every pair of short lists, and main's
CopyInputs ==
    (IovLists(Lens \cup BigLens, MaxSrcSegs) \X IovLists(Lens \cup BigLens, MaxDstSegs))
        \cup {<<MainList, MainList>>}

\* the lists handed to the iterator: every short list, the lists of one or
\* two segments of length 0, 100 or 1,000,000, and main's
IterLists ==
    IovLists(Lens, MaxSrcSegs) \cup IovLists({0, 100, MAX_IOV_LEN}, 2) \cup {MainList}

\* the amounts advance is called with; the last is beyond the range of int
Amounts == (0 .. MaxAdv) \cup {100, 150, MAX_IOV_LEN, 2 * MAX_IOV_LEN}

Fresh(list, fill) == [k \in 1 .. Len(list) |-> [pat |-> FALSE, fill |-> fill]]

\* ------------------------------------------------- iterator (lines 13-47)
\* initialize_iov_iter
initialize_iov_iter(nr_segs) == [iov |-> 0, nr_segs |-> nr_segs, iov_offset |-> 0]

NoFrame == [pc |-> "none", bytes |-> 0, base |-> 0, iov |-> 0]

\* entry of __iov_iter_advance_iov(i, bytes)
CallFrame(bytes) == [pc |-> "entry", bytes |-> bytes, base |-> 0, iov |-> 0]

\* line 21
TakesFastPath(it) == it.nr_segs = 1

\* line 22
FastPath(it, bytes) == [it EXCEPT !.iov_offset = SzAdd(@, bytes)]

\* lines 24-25
EnterLoop(it, f) == [f EXCEPT !.pc = "loop", !.iov = it.iov, !.base = it.iov_offset]

\* line 27 without the test for an empty segment
LoopCond_BytesOnly(bytes, len) == bytes # 0

\* line 27
LoopCond(bytes, len) == bytes # 0 \/ len = 0

\* line 28: int copy = (bytes < iov->iov_len - base) ? bytes : (iov->iov_len - base)
CopyAmount(bytes, len, base) ==
    ToInt(IF bytes < SzSub(len, base) THEN bytes ELSE SzSub(len, base))

\* lines 30-35 without line 34: the offset is kept when the cursor moves on
LoopBody_KeepsBase(f, len) ==
    LET copy == CopyAmount(f.bytes, len, f.base)
        rest == SzSub(f.bytes, copy)
        base == SzAdd(f.base, copy)
    IN  IF len = base
        THEN [f EXCEPT !.bytes = rest, !.iov = @ + 1, !.base = base]
        ELSE [f EXCEPT !.bytes = rest, !.base = base]

\* lines 30-35
LoopBody(f, len) ==
    LET copy == CopyAmount(f.bytes, len, f.base)
        rest == SzSub(f.bytes, copy)
        base == SzAdd(f.base, copy)
    IN  IF len = base
        THEN [f EXCEPT !.bytes = rest, !.iov = @ + 1, !.base = 0]
        ELSE [f EXCEPT !.bytes = rest, !.base = base]

\* lines 37-38 also dropping the segments passed from nr_segs
LoopExit_ConsumesSegs(it, f) ==
    [it EXCEPT !.iov = f.iov, !.iov_offset = f.base, !.nr_segs = @ - (f.iov - it.iov)]

\* lines 37-38
LoopExit(it, f) == [it EXCEPT !.iov = f.iov, !.iov_offset = f.base]

\* lines 27-36 run to the end, or to the first descriptor outside the list
RECURSIVE GeneralLoop(_, _, _)
GeneralLoop(list, f, fuel) ==
    IF fuel = 0 \/ f.iov >= Count(list) THEN f
    ELSE IF ~LoopCond(f.bytes, Seg(list, f.iov).iov_len) THEN f
    ELSE GeneralLoop(list, LoopBody(f, Seg(list, f.iov).iov_len), fuel - 1)

\* lines 24-38: the else branch of line 23 applied to an iterator
GeneralPath(list, it, bytes) ==
    LoopExit(it, GeneralLoop(list, EnterLoop(it, CallFrame(bytes)), Count(list) + 1))

\* values a read of iov[k].iov_len can give: the descriptor inside the array,
\* anything in the mapped memory after it, nothing (a fault) beyond that
ReadLens(list, k) ==
    IF k < Count(list) THEN {Seg(list, k).iov_len}
    ELSE IF k < Count(list) + MaxOOB THEN OOBVals
    ELSE {}

OutOfBounds(list, k) == k >= Count(list)

\* logical position of a cursor: lengths of the segments before it plus its offset
LogicalPos(list, it) == SumLens(list, Min(it.iov, Count(list))) + it.iov_offset

RemainingBytes(list, it) ==
    IF LogicalPos(list, it) <= TotalLength(list)
    THEN TotalLength(list) - LogicalPos(list, it) ELSE 0

\* the caller asks for no more than remains
InRange(list, it, n) == n <= RemainingBytes(list, it)

CallHist(list, it, n) ==
    [n |-> n, pos |-> LogicalPos(list, it), rem |-> RemainingBytes(list, it)]

\* ----------------------------------- __iov_iter_advance_iov, step by step
AdvFastPath ==
    /\ adv.pc = "entry"
    /\ TakesFastPath(iter)
    /\ iter' = FastPath(iter, adv.bytes)
    /\ adv' = [adv EXCEPT !.pc = "ret"]
    /\ UNCHANGED <<bufvars, inrange, memvars, zvars, pc, i, result, iter_live, oob, calls, hist>>

AdvEnterLoop ==
    /\ adv.pc = "entry"
    /\ ~TakesFastPath(iter)
    /\ adv' = EnterLoop(iter, adv)
    /\ UNCHANGED <<bufvars, inrange, memvars, zvars, pc, i, result, iter, iter_live, oob, calls, hist>>

AdvLoopBody ==
    /\ adv.pc = "loop"
    /\ \E len \in ReadLens(src_iov, adv.iov) :
          /\ LoopCond(adv.bytes, len)
          /\ adv' = LoopBody(adv, len)
    /\ oob' = (oob \/ OutOfBounds(src_iov, adv.iov))
    /\ UNCHANGED <<bufvars, inrange, memvars, zvars, pc, i, result, iter, iter_live, calls, hist>>

AdvLoopExit ==
    /\ adv.pc = "loop"
    /\ \E len \in ReadLens(src_iov, adv.iov) : ~LoopCond(adv.bytes, len)
    /\ iter' = LoopExit(iter, adv)
    /\ adv' = [adv EXCEPT !.pc = "ret"]
    /\ oob' = (oob \/ OutOfBounds(src_iov, adv.iov))
    /\ UNCHANGED <<bufvars, inrange, memvars, zvars, pc, i, result, iter_live, calls, hist>>

\* the read of a descriptor outside the array hits unmapped memory
AdvFault ==
    /\ adv.pc = "loop"
    /\ OutOfBounds(src_iov, adv.iov)
    /\ adv' = [adv EXCEPT !.pc = "fault"]
    /\ oob' = TRUE
    /\ UNCHANGED <<bufvars, inrange, memvars, zvars, pc, i, result, iter, iter_live, calls, hist>>

\* ------------------------------------------ validation (lines 87-95)
\* line 90 with >= for >
TooLong_Inclusive(len) == len >= MAX_IOV_LEN

\* line 90
TooLong(len) == len > MAX_IOV_LEN

validate_iovec_lengths(list) ==
    IF \E k \in 0 .. Count(list) - 1 : TooLong(Seg(list, k).iov_len) THEN -1 ELSE 0

\* line 61 with its operands exchanged
CapacityExceeded_Swapped(total_src, total_dst) == total_dst > total_src

\* line 61
CapacityExceeded(total_src, total_dst) == total_src > total_dst

\* lines 75-85
process_iovec_segments(list, data) ==
    [k \in 1 .. Len(list) |->
        IF list[k].iov_len > 0 /\ list[k].iov_base # NULL
        THEN [data[k] EXCEPT !.pat = TRUE] ELSE data[k]]

\* ------------------------------ perform_io_operation (lines 138-146)
PerformValidateSrc ==
    /\ pc = "start"
    /\ IF validate_iovec_lengths(src_iov) # 0
       THEN result' = -1 /\ pc' = "done"
       ELSE result' = result /\ pc' = "validate_dst"
    /\ UNCHANGED <<bufvars, inrange, memvars, zvars, i, iter, iter_live, adv, oob, calls, hist>>

PerformValidateDst ==
    /\ pc = "validate_dst"
    /\ IF validate_iovec_lengths(dst_iov) # 0
       THEN result' = -1 /\ pc' = "done"
       ELSE result' = result /\ pc' = "process"
    /\ UNCHANGED <<bufvars, inrange, memvars, zvars, i, iter, iter_live, adv, oob, calls, hist>>

PerformProcess ==
    /\ pc = "process"
    /\ src_data' = process_iovec_segments(src_iov, src_data)
    /\ pc' = "copy_totals"
    /\ UNCHANGED <<bufvars, inrange, src_iov, dst_iov, dst_data, zvars, i, result, iter, iter_live, adv, oob, calls, hist>>

\* ------------------------------------ safe_copy_data (lines 49-73)
SafeCopyTotals ==
    /\ pc = "copy_totals"
    /\ LET total_src == SizeSum(src_iov, Count(src_iov))
           total_dst == SizeSum(dst_iov, Count(dst_iov))
       IN  IF CapacityExceeded(total_src, total_dst)
           THEN result' = -1 /\ pc' = "done"
           ELSE result' = result /\ pc' = "copy_init"
    /\ UNCHANGED <<bufvars, inrange, memvars, zvars, i, iter, iter_live, adv, oob, calls, hist>>

SafeCopyInitIter ==
    /\ pc = "copy_init"
    /\ iter' = initialize_iov_iter(Count(src_iov))
    /\ iter_live' = TRUE
    /\ i' = 0
    /\ pc' = "copy_loop"
    /\ UNCHANGED <<bufvars, inrange, memvars, zvars, result, adv, oob, calls, hist>>

SafeCopyAdvance ==
    /\ pc = "copy_loop"
    /\ i < Count(src_iov)
    /\ adv' = CallFrame(Seg(src_iov, i).iov_len)
    /\ hist' = CallHist(src_iov, iter, Seg(src_iov, i).iov_len)
    /\ inrange' = (inrange /\ InRange(src_iov, iter, Seg(src_iov, i).iov_len))
    /\ calls' = calls + 1
    /\ pc' = "copy_wait"
    /\ UNCHANGED <<bufvars, memvars, zvars, i, result, iter, iter_live, oob>>

SafeCopyAdvanced ==
    /\ pc = "copy_wait"
    /\ adv.pc = "ret"
    /\ adv' = [adv EXCEPT !.pc = "none"]
    /\ i' = i + 1
    /\ pc' = "copy_loop"
    /\ UNCHANGED <<bufvars, inrange, memvars, zvars, result, iter, iter_live, oob, calls, hist>>

\* line 72 returning the byte count instead of the status
SafeCopyReturn_Total ==
    /\ pc = "copy_loop"
    /\ i >= Count(src_iov)
    /\ result' = SizeSum(src_iov, Count(src_iov))
    /\ pc' = "done"
    /\ UNCHANGED <<bufvars, inrange, memvars, zvars, i, iter, iter_live, adv, oob, calls, hist>>

SafeCopyReturn ==
    /\ pc = "copy_loop"
    /\ i >= Count(src_iov)
    /\ result' = 0
    /\ pc' = "done"
    /\ UNCHANGED <<bufvars, inrange, memvars, zvars, i, iter, iter_live, adv, oob, calls, hist>>

\* --------------------------------- struct buffer (sample.c, lines 10-54)
Buffer(data, size, capacity) == [data |-> data, size |-> size, capacity |-> capacity]

SzDouble(a) == (a * 2) % SizeMod

NoAppend == [len |-> 0, need |-> 0, new_capacity |-> 0, grew |-> FALSE,
             before |-> Buffer(NULL, 0, 0)]

NoCall == [op |-> "none", ret |-> 0, before |-> Buffer(NULL, 0, 0),
           realloc |-> "none", freed |-> FALSE, copied |-> FALSE,
           wend |-> 0, wcap |-> 0]

\* the specifications of core.c leave the buffer alone
BufferUnused ==
    /\ buf = Buffer(NULL, 0, 0)
    /\ alloc = -1
    /\ bpc = "idle"
    /\ bframe = NoAppend
    /\ bhist = NoCall
    /\ bcalls = 0
    /\ appended = 0
    /\ stray = FALSE

\* malloc and realloc return NULL or a block
Blocks == {NULL, 1}

\* lines 16-22; p is what malloc returned
initialize_buffer(b, initial_capacity, p) ==
    IF p = NULL THEN [b EXCEPT !.data = NULL]
    ELSE Buffer(p, 0, initial_capacity)

\* lines 24-31
cleanup_buffer(b) ==
    Buffer(IF b.data # NULL THEN NULL ELSE b.data, 0, 0)

\* lines 33-39 storing what realloc returned without the test of line 35
resize_buffer_Overwrites(b, new_capacity, p) ==
    Buffer(p, b.size, new_capacity)

\* lines 33-39; p is what realloc returned
resize_buffer(b, new_capacity, p) ==
    IF p = NULL THEN b
    ELSE Buffer(p, b.size, new_capacity)

\* line 42
NeedsGrowth(b, len) == SzAdd(b.size, len) > b.capacity

\* line 43
FirstCapacity(b) == IF b.capacity = 0 THEN GROW_START ELSE SzDouble(b.capacity)

\* line 44
StillTooSmall(new_capacity, need) == new_capacity < need

\* line 52
AfterCopy(b, len) == [b EXCEPT !.size = SzAdd(@, len)]

\* line 51: the bytes [size, size + len) are written through data; blk is
\* the size of the block data points to
WritesOutside(b, blk, len) == len > 0 /\ (b.data = NULL \/ b.size + len > blk)

\* ---------------------------------------------------------- specification
Init ==
    /\ \E in \in CopyInputs : src_iov = in[1] /\ dst_iov = in[2]
    /\ \E f \in FillBytes : src_data = Fresh(src_iov, f)
    /\ dst_data = Fresh(dst_iov, 0)
    /\ pc = "start"
    /\ i = 0
    /\ result = 1
    /\ iter = initialize_iov_iter(0)
    /\ iter_live = FALSE
    /\ adv = NoFrame
    /\ oob = FALSE
    /\ calls = 0
    /\ hist = [n |-> 0, pos |-> 0, rem |-> 0]
    /\ z_iov = <<>>
    /\ z_iter = initialize_iov_iter(0)
    /\ z_adv = NoFrame
    /\ z_oob = FALSE
    /\ inrange = TRUE
    /\ BufferUnused

Next ==
    \/ PerformValidateSrc
    \/ PerformValidateDst
    \/ PerformProcess
    \/ SafeCopyTotals
    \/ SafeCopyInitIter
    \/ SafeCopyAdvance
    \/ SafeCopyAdvanced
    \/ SafeCopyReturn
    \/ AdvFastPath
    \/ AdvEnterLoop
    \/ AdvLoopBody
    \/ AdvLoopExit
    \/ AdvFault

Spec == Init /\ [][Next]_vars

\* ------------------------------------------- a caller of the iterator
\* create(segments), then advance(n) for any amounts, one call at a time
ApiCreate ==
    /\ pc = "api_new"
    /\ iter' = initialize_iov_iter(Count(src_iov))
    /\ iter_live' = TRUE
    /\ pc' = "api_idle"
    /\ UNCHANGED <<bufvars, inrange, memvars, zvars, i, result, adv, oob, calls, hist>>

ApiAdvance ==
    /\ pc = "api_idle"
    /\ calls < MaxCalls
    /\ \E n \in Amounts :
          /\ adv' = CallFrame(n)
          /\ hist' = CallHist(src_iov, iter, n)
          /\ inrange' = (inrange /\ InRange(src_iov, iter, n))
    /\ calls' = calls + 1
    /\ pc' = "api_wait"
    /\ UNCHANGED <<bufvars, memvars, zvars, i, result, iter, iter_live, oob>>

ApiReturned ==
    /\ pc = "api_wait"
    /\ adv.pc = "ret"
    /\ adv' = [adv EXCEPT !.pc = "none"]
    /\ pc' = "api_idle"
    /\ UNCHANGED <<bufvars, inrange, memvars, zvars, i, result, iter, iter_live, oob, calls, hist>>

IterInit ==
    /\ src_iov \in IterLists
    /\ dst_iov = <<>>
    /\ src_data = Fresh(src_iov, 0)
    /\ dst_data = <<>>
    /\ pc = "api_new"
    /\ i = 0
    /\ result = 1
    /\ iter = initialize_iov_iter(0)
    /\ iter_live = FALSE
    /\ adv = NoFrame
    /\ oob = FALSE
    /\ calls = 0
    /\ hist = [n |-> 0, pos |-> 0, rem |-> 0]
    /\ z_iov = <<>>
    /\ z_iter = initialize_iov_iter(0)
    /\ z_adv = NoFrame
    /\ z_oob = FALSE
    /\ inrange = TRUE
    /\ BufferUnused

IterNext ==
    \/ ApiCreate
    \/ ApiAdvance
    \/ ApiReturned
    \/ AdvFastPath
    \/ AdvEnterLoop
    \/ AdvLoopBody
    \/ AdvLoopExit
    \/ AdvFault

IterSpec == IterInit /\ [][IterNext]_vars

\* the program is one thread that runs whenever it can take a step
FairIterSpec == IterSpec /\ WF_vars(IterNext)

\* ------------------- two iterators, over a list and over its non-empty segments
RECURSIVE StripZero(_)
StripZero(list) ==
    IF list = <<>> THEN <<>>
    ELSE IF Head(list).iov_len = 0 THEN StripZero(Tail(list))
    ELSE <<Head(list)>> \o StripZero(Tail(list))

EqCreate ==
    /\ pc = "eq_new"
    /\ iter' = initialize_iov_iter(Count(src_iov))
    /\ z_iter' = initialize_iov_iter(Count(z_iov))
    /\ iter_live' = TRUE
    /\ pc' = "eq_idle"
    /\ UNCHANGED <<bufvars, inrange, memvars, i, result, adv, oob, calls, hist, z_iov, z_adv, z_oob>>

\* the same advance(n) on both
EqAdvance ==
    /\ pc = "eq_idle"
    /\ calls < MaxCalls
    /\ \E n \in Amounts :
          /\ adv' = CallFrame(n)
          /\ z_adv' = CallFrame(n)
          /\ hist' = CallHist(src_iov, iter, n)
          /\ inrange' = (inrange /\ InRange(src_iov, iter, n))
    /\ calls' = calls + 1
    /\ pc' = "eq_wait"
    /\ UNCHANGED <<bufvars, memvars, i, result, iter, iter_live, oob, z_iov, z_iter, z_oob>>

EqReturned ==
    /\ pc = "eq_wait"
    /\ adv.pc = "ret"
    /\ z_adv.pc = "ret"
    /\ adv' = [adv EXCEPT !.pc = "none"]
    /\ z_adv' = [z_adv EXCEPT !.pc = "none"]
    /\ pc' = "eq_idle"
    /\ UNCHANGED <<bufvars, inrange, memvars, i, result, iter, iter_live, oob, calls, hist, z_iov, z_iter, z_oob>>

ZAdvFastPath ==
    /\ z_adv.pc = "entry"
    /\ TakesFastPath(z_iter)
    /\ z_iter' = FastPath(z_iter, z_adv.bytes)
    /\ z_adv' = [z_adv EXCEPT !.pc = "ret"]
    /\ UNCHANGED <<bufvars, inrange, memvars, pc, i, result, iter, iter_live, adv, oob, calls, hist, z_iov, z_oob>>

ZAdvEnterLoop ==
    /\ z_adv.pc = "entry"
    /\ ~TakesFastPath(z_iter)
    /\ z_adv' = EnterLoop(z_iter, z_adv)
    /\ UNCHANGED <<bufvars, inrange, memvars, pc, i, result, iter, iter_live, adv, oob, calls, hist, z_iov, z_iter, z_oob>>

ZAdvLoopBody ==
    /\ z_adv.pc = "loop"
    /\ \E len \in ReadLens(z_iov, z_adv.iov) :
          /\ LoopCond(z_adv.bytes, len)
          /\ z_adv' = LoopBody(z_adv, len)
    /\ z_oob' = (z_oob \/ OutOfBounds(z_iov, z_adv.iov))
    /\ UNCHANGED <<bufvars, inrange, memvars, pc, i, result, iter, iter_live, adv, oob, calls, hist, z_iov, z_iter>>

ZAdvLoopExit ==
    /\ z_adv.pc = "loop"
    /\ \E len \in ReadLens(z_iov, z_adv.iov) : ~LoopCond(z_adv.bytes, len)
    /\ z_iter' = LoopExit(z_iter, z_adv)
    /\ z_adv' = [z_adv EXCEPT !.pc = "ret"]
    /\ z_oob' = (z_oob \/ OutOfBounds(z_iov, z_adv.iov))
    /\ UNCHANGED <<bufvars, inrange, memvars, pc, i, result, iter, iter_live, adv, oob, calls, hist, z_iov>>

ZAdvFault ==
    /\ z_adv.pc = "loop"
    /\ OutOfBounds(z_iov, z_adv.iov)
    /\ z_adv' = [z_adv EXCEPT !.pc = "fault"]
    /\ z_oob' = TRUE
    /\ UNCHANGED <<bufvars, inrange, memvars, pc, i, result, iter, iter_live, adv, oob, calls, hist, z_iov, z_iter>>

EqInit ==
    /\ src_iov \in IovLists(Lens, MaxSrcSegs)
    /\ dst_iov = <<>>
    /\ src_data = Fresh(src_iov, 0)
    /\ dst_data = <<>>
    /\ pc = "eq_new"
    /\ i = 0
    /\ result = 1
    /\ iter = initialize_iov_iter(0)
    /\ iter_live = FALSE
    /\ adv = NoFrame
    /\ oob = FALSE
    /\ calls = 0
    /\ hist = [n |-> 0, pos |-> 0, rem |-> 0]
    /\ z_iov = StripZero(src_iov)
    /\ z_iter = initialize_iov_iter(0)
    /\ z_adv = NoFrame
    /\ z_oob = FALSE
    /\ inrange = TRUE
    /\ BufferUnused

EqNext ==
    \/ EqCreate
    \/ EqAdvance
    \/ EqReturned
    \/ AdvFastPath
    \/ AdvEnterLoop
    \/ AdvLoopBody
    \/ AdvLoopExit
    \/ AdvFault
    \/ ZAdvFastPath
    \/ ZAdvEnterLoop
    \/ ZAdvLoopBody
    \/ ZAdvLoopExit
    \/ ZAdvFault

EqSpec == EqInit /\ [][EqNext]_vars

\* ------------------------------- safe_copy_data on its own (lines 49-73)
\* lengths up to the width of size_t: half the range, and one more
WideLens == {0, 1, SizeMod \div 2, SizeMod \div 2 + 1}

CopyInit ==
    /\ src_iov \in IovLists(WideLens, MaxWideSegs)
    /\ dst_iov \in IovLists(WideLens, MaxWideSegs)
    /\ src_data = Fresh(src_iov, 0)
    /\ dst_data = Fresh(dst_iov, 0)
    /\ pc = "copy_totals"
    /\ i = 0
    /\ result = 1
    /\ iter = initialize_iov_iter(0)
    /\ iter_live = FALSE
    /\ adv = NoFrame
    /\ oob = FALSE
    /\ calls = 0
    /\ hist = [n |-> 0, pos |-> 0, rem |-> 0]
    /\ z_iov = <<>>
    /\ z_iter = initialize_iov_iter(0)
    /\ z_adv = NoFrame
    /\ z_oob = FALSE
    /\ inrange = TRUE
    /\ BufferUnused

CopyNext ==
    \/ SafeCopyTotals
    \/ SafeCopyInitIter
    \/ SafeCopyAdvance
    \/ SafeCopyAdvanced
    \/ SafeCopyReturn
    \/ AdvFastPath
    \/ AdvEnterLoop
    \/ AdvLoopBody
    \/ AdvLoopExit
    \/ AdvFault

CopySpec == CopyInit /\ [][CopyNext]_vars

\* --------------------------------- a caller of the buffer (sample.c)
\* initialize_buffer on a struct with indeterminate fields (line 102), then
\* any calls of initialize_buffer, append_to_buffer and cleanup_buffer
corevars == <<memvars, zvars, pc, i, result, iter, iter_live, adv, oob, calls, hist, inrange>>

InitCaps == {0, 1, GROW_START}

AppendLens == {0, 1, 4, GROW_START + 1, SizeMod \div 2, SizeMod - 1}

BufInitialize ==
    /\ bpc = "idle"
    /\ bcalls < MaxBufCalls
    /\ \E cap \in InitCaps, p \in Blocks :
          /\ buf' = initialize_buffer(buf, cap, p)
          /\ alloc' = IF p = NULL THEN -1 ELSE cap
          /\ bhist' = [NoCall EXCEPT !.op = "initialize", !.before = buf,
                                     !.ret = IF p = NULL THEN -1 ELSE 0]
    /\ appended' = 0
    /\ bcalls' = bcalls + 1
    /\ UNCHANGED <<corevars, bpc, bframe, stray>>

BufCleanup ==
    /\ bpc = "idle"
    /\ bhist.op # "none"
    /\ bcalls < MaxBufCalls
    /\ buf' = cleanup_buffer(buf)
    /\ alloc' = -1
    /\ bhist' = [NoCall EXCEPT !.op = "cleanup", !.before = buf,
                               !.freed = (buf.data # NULL)]
    /\ appended' = 0
    /\ bcalls' = bcalls + 1
    /\ UNCHANGED <<corevars, bpc, bframe, stray>>

\* lines 42-43
AppendCall ==
    /\ bpc = "idle"
    /\ bhist.op # "none"
    /\ bcalls < MaxBufCalls
    /\ \E len \in AppendLens :
          /\ bframe' = [len |-> len, need |-> SzAdd(buf.size, len),
                        new_capacity |-> IF NeedsGrowth(buf, len)
                                         THEN FirstCapacity(buf) ELSE 0,
                        grew |-> NeedsGrowth(buf, len), before |-> buf]
          /\ bpc' = IF NeedsGrowth(buf, len) THEN "grow" ELSE "copy"
    /\ bcalls' = bcalls + 1
    /\ UNCHANGED <<corevars, buf, alloc, bhist, appended, stray>>

\* lines 44-46
AppendDouble ==
    /\ bpc = "grow"
    /\ StillTooSmall(bframe.new_capacity, bframe.need)
    /\ bframe' = [bframe EXCEPT !.new_capacity = SzDouble(@)]
    /\ UNCHANGED <<corevars, buf, alloc, bpc, bhist, bcalls, appended, stray>>

AppendGrown ==
    /\ bpc = "grow"
    /\ ~StillTooSmall(bframe.new_capacity, bframe.need)
    /\ bpc' = "resize"
    /\ UNCHANGED <<corevars, buf, alloc, bframe, bhist, bcalls, appended, stray>>

\* lines 47-49, realloc returning NULL
AppendResizeFails ==
    /\ bpc = "resize"
    /\ buf' = resize_buffer(buf, bframe.new_capacity, NULL)
    /\ bhist' = [NoCall EXCEPT !.op = "append", !.before = bframe.before,
                               !.ret = -1, !.realloc = "failed"]
    /\ bpc' = "idle"
    /\ UNCHANGED <<corevars, alloc, bframe, bcalls, appended, stray>>

\* line 47, realloc returning the resized block
AppendResized ==
    /\ bpc = "resize"
    /\ buf' = resize_buffer(buf, bframe.new_capacity, 1)
    /\ alloc' = bframe.new_capacity
    /\ bpc' = "copy"
    /\ UNCHANGED <<corevars, bframe, bhist, bcalls, appended, stray>>

\* lines 51-53
AppendCopy ==
    /\ bpc = "copy"
    /\ stray' = (stray \/ WritesOutside(buf, alloc, bframe.len))
    /\ buf' = AfterCopy(buf, bframe.len)
    /\ appended' = IF appended >= SizeMod THEN appended ELSE appended + bframe.len
    /\ bhist' = [NoCall EXCEPT !.op = "append", !.before = bframe.before,
                               !.realloc = IF bframe.grew THEN "done" ELSE "none",
                               !.copied = TRUE,
                               !.wend = buf.size + bframe.len,
                               !.wcap = buf.capacity]
    /\ bpc' = "idle"
    /\ UNCHANGED <<corevars, alloc, bframe, bcalls>>

BufInit ==
    /\ buf \in { Buffer(d, sz, c) : d \in Blocks, sz \in OOBVals, c \in OOBVals }
    /\ alloc = -1
    /\ bpc = "idle"
    /\ bframe = NoAppend
    /\ bhist = NoCall
    /\ bcalls = 0
    /\ appended = 0
    /\ stray = FALSE
    /\ src_iov = <<>>
    /\ dst_iov = <<>>
    /\ src_data = <<>>
    /\ dst_data = <<>>
    /\ pc = "done"
    /\ i = 0
    /\ result = 1
    /\ iter = initialize_iov_iter(0)
    /\ iter_live = FALSE
    /\ adv = NoFrame
    /\ oob = FALSE
    /\ calls = 0
    /\ hist = [n |-> 0, pos |-> 0, rem |-> 0]
    /\ z_iov = <<>>
    /\ z_iter = initialize_iov_iter(0)
    /\ z_adv = NoFrame
    /\ z_oob = FALSE
    /\ inrange = TRUE

BufNext ==
    \/ BufInitialize
    \/ BufCleanup
    \/ AppendCall
    \/ AppendDouble
    \/ AppendGrown
    \/ AppendResizeFails
    \/ AppendResized
    \/ AppendCopy

BufSpec == BufInit /\ [][BufNext]_vars

\* ================================================================ claims
\* vocabulary of the claims, stated on the lists and not through the code's checks
OverLong(list) == \E k \in 1 .. Len(list) : list[k].iov_len > MAX_IOV_LEN

\* the segment's bytes are those it was allocated with
SegmentUntouched(d, len) ==
    ~d.pat \/ \A j \in 0 .. len - 1 : 65 + (j % 26) = d.fill

Untouched(list, data) ==
    \A k \in 1 .. Len(list) : SegmentUntouched(data[k], list[k].iov_len)

\* byte p of the source stream as the caller passed it
SourceByteAtCall(p) == src_data[SegOf(src_iov, p) + 1].fill

Returned == adv.pc = "ret"

\* C1: when every segment is at most 1,000,000 bytes and the destination's
\* total length is at least the source's, perform_io_operation returns 0
\* and the first TotalLength(source) bytes of the destination stream are the
\* source stream's bytes.
C1_CopyTransfersBytes ==
    (/\ pc = "done"
     /\ ~OverLong(src_iov)
     /\ ~OverLong(dst_iov)
     /\ TotalLength(dst_iov) >= TotalLength(src_iov))
    => /\ result = 0
       /\ \A p \in 0 .. TotalLength(src_iov) - 1 :
             StreamByte(dst_iov, dst_data, p) = SourceByteAtCall(p)

\* C2: a call advance(n) with n <= remaining bytes that returns leaves the
\* cursor's logical position at the position before the call plus n.
C2_AdvanceConsumesExactly ==
    (Returned /\ hist.n <= hist.rem)
    => LogicalPos(src_iov, iter) = hist.pos + hist.n

\* a call inside the remaining bytes crossed a segment boundary and stopped
\* inside a later segment
C2_Witness ==
    /\ Returned
    /\ hist.n > 0
    /\ hist.n <= hist.rem
    /\ iter.nr_segs > 1
    /\ 0 < iter.iov /\ iter.iov < iter.nr_segs
    /\ iter.iov_offset > 0

\* C3: a call advance(n) with n > remaining bytes does not move the cursor
\* past the end of the list (it is rejected as an overrun).
C3_OverrunRejected ==
    (Returned /\ hist.n > hist.rem)
    => /\ LogicalPos(src_iov, iter) <= TotalLength(src_iov)
       /\ iter.iov <= iter.nr_segs

\* C4: every call of advance returns.
C4_AdvanceTerminates == [](adv.pc = "entry" => <>(adv.pc = "ret"))

\* C5: a cursor that points to a segment of the list has its offset within
\* that segment's length.
C5_OffsetWithinSegment ==
    (iter_live /\ iter.iov < iter.nr_segs)
    => iter.iov_offset <= Seg(src_iov, iter.iov).iov_len

\* C6: the cursor's index never exceeds the number of segments, equals it
\* only when no bytes remain, and no descriptor at an index >= the number of
\* segments is ever read.
C6_NoReadPastEnd ==
    /\ ~oob
    /\ iter_live =>
          /\ iter.iov <= iter.nr_segs
          /\ iter.iov = iter.nr_segs => RemainingBytes(src_iov, iter) = 0

\* C7: after the same calls, the iterator over a list and the iterator over
\* the list without its zero-length segments have both returned or both
\* failed, and stand at the same logical position.
C7_ZeroSegmentsTransparent ==
    (adv.pc \in {"ret", "fault"} /\ z_adv.pc \in {"ret", "fault"})
    => /\ adv.pc = z_adv.pc
       /\ LogicalPos(src_iov, iter) = LogicalPos(z_iov, z_iter)

\* C8: when the source's total length exceeds the destination's, the call
\* returns -1, no iterator is created or advanced and no destination byte is
\* written.
C8_InsufficientCapacityFails ==
    TotalLength(src_iov) > TotalLength(dst_iov)
    => /\ pc = "done" => result = -1
       /\ ~iter_live
       /\ calls = 0
       /\ Untouched(dst_iov, dst_data)

\* the capacity check itself rejected the call
C8_Witness ==
    /\ pc = "done"
    /\ result = -1
    /\ ~OverLong(src_iov)
    /\ ~OverLong(dst_iov)
    /\ TotalLength(src_iov) > TotalLength(dst_iov)
    /\ Count(dst_iov) > 0

\* C9: the bytes of every source segment are those the caller passed.
C9_SourceUntouched == Untouched(src_iov, src_data)

\* C10: perform_io_operation returns -1 exactly when a source or destination
\* segment is longer than 1,000,000 or the source total exceeds the
\* destination total, and 0 otherwise; when a length check fails no segment
\* memory has been written and no iterator has been created or advanced.
C10_FailsIffValidationFails ==
    /\ pc = "done" =>
          /\ result \in {-1, 0}
          /\ result = -1 <=>
                \/ OverLong(src_iov)
                \/ OverLong(dst_iov)
                \/ TotalLength(src_iov) > TotalLength(dst_iov)
    /\ (OverLong(src_iov) \/ OverLong(dst_iov)) =>
          /\ Untouched(src_iov, src_data)
          /\ Untouched(dst_iov, dst_data)
          /\ ~iter_live
          /\ calls = 0

\* a source segment of exactly 1,000,000 bytes passed the first check and a
\* destination segment of 1,000,001 bytes failed the second
C10_Witness ==
    /\ pc = "done"
    /\ result = -1
    /\ \E k \in 1 .. Len(src_iov) : src_iov[k].iov_len = MAX_IOV_LEN
    /\ ~OverLong(src_iov)
    /\ OverLong(dst_iov)
    /\ TotalLength(src_iov) <= TotalLength(dst_iov)

Accepted == pc \in {"copy_init", "copy_loop", "copy_wait"} \/ (pc = "done" /\ result = 0)

\* C12: the totals are checked sums: a list whose true total does not fit
\* size_t is refused, and no accepted source is longer than its destination.
C12_CheckedTotals ==
    Accepted =>
        /\ TotalLength(src_iov) < SizeMod
        /\ TotalLength(dst_iov) < SizeMod
        /\ TotalLength(src_iov) <= TotalLength(dst_iov)

\* C13: an iteration of the loop over a segment of the list takes
\* min(bytes, iov_len - base), at full width, from bytes and adds it to the offset.
C13_CopyIsFullWidthMinimum ==
    [][(adv.pc = "loop" /\ adv'.pc = "loop" /\ adv.iov < Count(src_iov))
        => LET len == Seg(src_iov, adv.iov).iov_len
               m == Min(adv.bytes, len - adv.base)
           IN  /\ adv'.bytes = adv.bytes - m
               /\ IF adv.base + m = len
                  THEN adv'.iov = adv.iov + 1 /\ adv'.base = 0
                  ELSE adv'.iov = adv.iov /\ adv'.base = adv.base + m]_vars

\* C14: advance(n) with n no more than the total, then advance(remaining),
\* returns and leaves the iterator exhausted with its cursor at the end.
C14_ExhaustInTwoCalls ==
    (/\ calls = 2
     /\ inrange
     /\ hist.n = hist.rem
     /\ adv.pc \in {"ret", "fault"})
    => /\ Returned
       /\ RemainingBytes(src_iov, iter) = 0
       /\ LogicalPos(src_iov, iter) = TotalLength(src_iov)
       /\ iter.iov <= Count(src_iov)

\* C15: an iterator over the empty list has nothing remaining, and
\* advance(0) with nothing remaining reads no descriptor past the end,
\* returns, and leaves the cursor where it was.
C15_ExhaustedAdvanceZeroIsNoOp ==
    /\ (iter_live /\ calls = 0 /\ src_iov = <<>>) => RemainingBytes(src_iov, iter) = 0
    /\ (calls > 0 /\ hist.n = 0 /\ hist.rem = 0)
       => /\ adv.pc = "loop" => ~OutOfBounds(src_iov, adv.iov)
          /\ adv.pc # "fault"
          /\ Returned => /\ LogicalPos(src_iov, iter) = hist.pos
                         /\ iter.iov <= Count(src_iov)
    /\ (calls = 1 /\ src_iov = <<>> /\ Returned) => iter = initialize_iov_iter(0)

\* C16: on a list of one segment the cursor the fast path leaves is the
\* cursor the general loop leaves for the same list, offset and amount.
C16_FastPathMatchesLoop ==
    (Returned /\ iter.nr_segs = 1)
    => iter = GeneralPath(src_iov, [iter EXCEPT !.iov_offset = hist.pos], hist.n)

\* C17: no step changes a descriptor of either list or nr_segs, nr_segs is
\* the number of segments of the list, and a call returns through the fast
\* path exactly when the list has one segment.
C17_AdvanceLeavesListAlone ==
    [][/\ src_iov' = src_iov
       /\ dst_iov' = dst_iov
       /\ iter_live => /\ iter.nr_segs = Count(src_iov)
                       /\ iter'.nr_segs = iter.nr_segs
       /\ adv.pc = "entry" => (adv'.pc = "ret" <=> Count(src_iov) = 1)]_vars

\* safe_copy_data's second call has returned with the cursor moved on
C17_Witness ==
    /\ pc = "copy_wait"
    /\ calls = 2
    /\ Returned
    /\ iter.iov > 0
    /\ iter.nr_segs = Count(src_iov)

\* C18: on a list of several segments, none longer than 1,000,000, a call
\* that returns with the cursor inside the list leaves it on a segment of
\* non-zero length, at an offset below that length.
C18_CursorRestsInsideSegment ==
    (/\ Returned
     /\ iter.nr_segs > 1
     /\ ~OverLong(src_iov)
     /\ iter.iov < iter.nr_segs)
    => /\ Seg(src_iov, iter.iov).iov_len # 0
       /\ iter.iov_offset < Seg(src_iov, iter.iov).iov_len

\* a call has stepped over an empty segment and stopped inside the next
C18_Witness ==
    /\ Returned
    /\ iter.nr_segs > 1
    /\ iter.iov > 0
    /\ iter.iov < iter.nr_segs
    /\ Seg(src_iov, iter.iov - 1).iov_len = 0
    /\ iter.iov_offset > 0

\* C19: between calls the buffer has size <= capacity, size is the sum of
\* the successful appends since the last initialize or cleanup, every append
\* wrote inside [size, capacity) of the block, cleanup leaves (NULL, 0, 0),
\* and a cleanup of a cleaned buffer changes nothing and frees nothing.
C19_BufferInvariants ==
    (bpc = "idle" /\ bhist.op # "none")
    => /\ buf.size <= buf.capacity
       /\ buf.size = appended
       /\ bhist.copied => bhist.wend <= bhist.wcap
       /\ ~stray
       /\ bhist.op = "cleanup" => buf = Buffer(NULL, 0, 0)
       /\ (bhist.op = "cleanup" /\ bhist.before = Buffer(NULL, 0, 0))
          => (buf = bhist.before /\ ~bhist.freed)

\* C20: an append that had to grow and whose realloc failed has returned -1
\* with data, size and capacity as at the call and nothing copied.
C20_FailedGrowthLeavesBuffer ==
    (bpc = "idle" /\ bhist.op = "append" /\ bhist.realloc = "failed")
    => /\ bhist.ret = -1
       /\ buf = bhist.before
       /\ ~bhist.copied

\* the growth of a buffer that holds bytes has failed
C20_Witness ==
    /\ bpc = "idle"
    /\ bhist.op = "append"
    /\ bhist.realloc = "failed"
    /\ bhist.ret = -1
    /\ bhist.before.data # NULL
    /\ bhist.before.size > 0
    /\ bframe.len > 0

====
